---- MODULE Spec2Model ----
(***************************************************************************)
(* Provenance classification and installation-report synthesis:           *)
(*   crates/uv-resolver/src/resolution/mod.rs   AnnotatedDist::url,        *)
(*                                              AnnotatedDist::direct_url  *)
(*   crates/report-types/src/report.rs          InstallationReportItem::   *)
(*                                              from_cached_dist,          *)
(*                                              PipReport::from_resolution *)
(*   crates/report_types/src/report.rs          InstallationReportItem::   *)
(*                                              from_dist                  *)
(***************************************************************************)
EXTENDS Integers, Sequences, FiniteSets, TLC

VARIABLES
    dists,          \* from_resolution: the `dists` slice, in resolution order
    requirements,   \* from_resolution: the `requirements` slice
    install,        \* from_resolution: the Vec being collected
    report,         \* what from_resolution handed back: None or Some(PipReport)
    missing,        \* None, or Some(the package whose metadata read was an Err)
    annotated,      \* the AnnotatedDist that direct_url / from_dist is called on
    durl,           \* the value direct_url returned
    locals,         \* the locals from_dist computed
    pc              \* position of the running entry point

vars == <<dists, requirements, install, report, missing, annotated, durl, locals, pc>>

----------------------------------------------------------------------------
(* Bounds of the model.                                                    *)

MaxDists == 2       \* longest resolved set
MaxReqs == 2        \* longest request list
MaxHashes == 2      \* longest hash sequence of an AnnotatedDist

----------------------------------------------------------------------------
(* Option<T>, Result<T, ()>.                                               *)

None == <<>>
Some(x) == <<x>>
Ok(x) == <<"Ok", x>>
Err == <<"Err">>

\* Result::ok
ok(r) == IF r[1] = "Ok" THEN Some(r[2]) ELSE None

----------------------------------------------------------------------------
(* Values the origins are built from.                                      *)

PackageNames == {"flask", "werkzeug", "click"}
ExtraNames == {"async"}

\* A parsed Url; Display for Url is its serialization.
IndexUrl == [scheme |-> "https", rest |-> "pypi.org/simple"]
ArchiveLocation == [scheme |-> "https", rest |-> "files.example/pkg.tar.gz"]
RepositoryUrl == [scheme |-> "https", rest |-> "git.example/pkg"]
InstalledFrom == [scheme |-> "https", rest |-> "files.example/pkg.whl"]
EditableTarget == [scheme |-> "file", rest |-> "/work/pkg"]

Url_to_string(u) == u.scheme \o "://" \o u.rest

\* A filesystem path: rooted or not, and its text below the root.
Paths == {[absolute |-> TRUE, text |-> "srv/pkg"], [absolute |-> FALSE, text |-> "pkg"]}

\* Url::from_file_path: Err(()) unless the path is absolute.
Url_from_file_path(p) ==
    IF p.absolute THEN Ok([scheme |-> "file", rest |-> "/" \o p.text]) ELSE Err

Subdirectories == {None, Some("sub")}

\* GitReference, and GitReference::as_str (no text for the default branch).
GitReferences == {[ref |-> "Branch", rev |-> "main"], [ref |-> "Tag", rev |-> "v1"],
                  [ref |-> "DefaultBranch"]}

as_str(reference) ==
    IF reference.ref = "DefaultBranch" THEN None ELSE Some(reference.rev)

\* GitSha: the bytes of a commit id (shortened to two); Display is lowercase hex.
GitShas == {<<171, 205>>, <<0, 31>>}
HexDigit == <<"0", "1", "2", "3", "4", "5", "6", "7", "8", "9", "a", "b", "c", "d", "e", "f">>
HexByte(b) == HexDigit[(b \div 16) + 1] \o HexDigit[(b % 16) + 1]
GitSha_to_string(sha) == HexByte(sha[1]) \o HexByte(sha[2])

\* GitUrl: repository(), reference(), precise()
GitUrls == [repository : {RepositoryUrl}, reference : GitReferences,
            precise : {None} \cup {Some(s) : s \in GitShas}]

\* HashDigest { algorithm, digest }; Display for HashAlgorithm is the lowercase name.
HashAlgorithms == {"Sha256", "Md5"}
Digests == {"A", "B"}
HashDigests == [algorithm : HashAlgorithms, digest : Digests]

HashAlgorithm_to_string(a) ==
    CASE a = "Sha256" -> "sha256"
      [] a = "Md5" -> "md5"

----------------------------------------------------------------------------
(* ResolvedDist: the closed set of origins.  `kind` is the variant.        *)

RegistryKinds == {"Built::Registry", "Source::Registry", "Installed::Registry"}

Kinds == {"Built::Registry", "Built::DirectUrl", "Built::Path",
          "Source::Registry", "Source::DirectUrl", "Source::Git", "Source::Path",
          "Source::Directory",
          "Installed::Registry", "Installed::Url", "Installed::EggInfoFile",
          "Installed::EggInfoDirectory", "Installed::LegacyEditable"}

ResolvedDists(names) ==
    [kind : {"Built::Registry", "Source::Registry"}, name : names, index : {IndexUrl}]
    \cup [kind : {"Built::DirectUrl"}, name : names, location : {ArchiveLocation}]
    \cup [kind : {"Source::DirectUrl"}, name : names, location : {ArchiveLocation},
          subdirectory : Subdirectories]
    \cup [kind : {"Built::Path", "Source::Path"}, name : names, install_path : Paths]
    \cup [kind : {"Source::Directory"}, name : names, install_path : Paths,
          editable : BOOLEAN]
    \cup [kind : {"Source::Git"}, name : names, git : GitUrls,
          subdirectory : Subdirectories]
    \cup [kind : {"Installed::Registry", "Installed::EggInfoFile",
                  "Installed::EggInfoDirectory"}, name : names, path : Paths]
    \cup [kind : {"Installed::Url"}, name : names, url : {InstalledFrom}]
    \cup [kind : {"Installed::LegacyEditable"}, name : names, target_url : {EditableTarget}]

\* ResolvedDist::is_editable
is_editable(dist) ==
    CASE dist.kind = "Source::Directory" -> dist.editable
      [] dist.kind = "Installed::LegacyEditable" -> TRUE
      [] OTHER -> FALSE

\* ResolvedDist::version_or_url: "Url" or "Version"
version_or_url(dist) ==
    IF dist.kind \in RegistryKinds THEN "Version" ELSE "Url"

----------------------------------------------------------------------------
(* AnnotatedDist::url                                                      *)

url(self) ==
    LET dist == self.dist IN
    CASE dist.kind = "Installed::Registry" -> Url_from_file_path(dist.path)
      [] dist.kind = "Installed::Url" -> Ok(dist.url)
      [] dist.kind = "Installed::EggInfoFile" -> Url_from_file_path(dist.path)
      [] dist.kind = "Installed::EggInfoDirectory" -> Url_from_file_path(dist.path)
      [] dist.kind = "Installed::LegacyEditable" -> Ok(dist.target_url)
      [] dist.kind = "Built::Registry" -> Ok(dist.index)
      [] dist.kind = "Built::DirectUrl" -> Ok(dist.location)
      [] dist.kind = "Built::Path" -> Url_from_file_path(dist.install_path)
      [] dist.kind = "Source::Registry" -> Ok(dist.index)
      [] dist.kind = "Source::DirectUrl" -> Ok(dist.location)
      [] dist.kind = "Source::Git" -> Ok(dist.git.repository)
      [] dist.kind = "Source::Path" -> Url_from_file_path(dist.install_path)
      [] dist.kind = "Source::Directory" -> Url_from_file_path(dist.install_path)

----------------------------------------------------------------------------
(* AnnotatedDist::direct_url                                               *)

\* BTreeMap::insert: a key already present gets the new value.
BTreeMap_new == <<>>

insert_if_absent(map, key, value) ==
    [k \in (DOMAIN map) \cup {key} |-> IF k \in DOMAIN map THEN map[k] ELSE value]

insert(map, key, value) ==
    [k \in (DOMAIN map) \cup {key} |-> IF k = key THEN value ELSE map[k]]

\* for hash in self.hashes.clone() { hashes.insert(algorithm.to_string(), digest.to_string()) }
RECURSIVE aggregate(_, _)
aggregate(map, hashes) ==
    IF hashes = <<>> THEN map
    ELSE aggregate(insert(map, HashAlgorithm_to_string(Head(hashes).algorithm),
                          Head(hashes).digest),
                   Tail(hashes))

subdirectory_of(dist) ==
    CASE dist.kind = "Source::DirectUrl" -> dist.subdirectory
      [] dist.kind = "Source::Git" -> dist.subdirectory
      [] OTHER -> None

commit_id_of_reference(git) ==
    IF as_str(git.reference) = None THEN None ELSE Some(as_str(git.reference)[1])

commit_id(git) ==
    IF git.precise # None THEN Some(GitSha_to_string(git.precise[1])) ELSE None

direct_url(self) ==
    IF ok(url(self)) = None THEN None
    ELSE
    LET url_string == Url_to_string(ok(url(self))[1])
        hashes == aggregate(BTreeMap_new, self.hashes)
        subdirectory == subdirectory_of(self.dist)
        dist == self.dist
    IN
    CASE dist.kind \in {"Installed::EggInfoFile", "Installed::EggInfoDirectory",
                        "Installed::LegacyEditable", "Built::Path", "Source::Path",
                        "Source::Directory"} ->
            Some([variant |-> "LocalDirectory",
                  url |-> url_string,
                  dir_info |-> [editable |-> Some(is_editable(dist))]])
      [] dist.kind \in {"Installed::Registry", "Installed::Url", "Built::Registry",
                        "Built::DirectUrl", "Source::Registry", "Source::DirectUrl"} ->
            Some([variant |-> "ArchiveUrl",
                  url |-> url_string,
                  archive_info |-> [hash |-> None, hashes |-> Some(hashes)],
                  subdirectory |-> subdirectory])
      [] dist.kind = "Source::Git" ->
            IF as_str(dist.git.reference) = None THEN None
            ELSE Some([variant |-> "VcsUrl",
                       url |-> url_string,
                       vcs_info |-> [vcs |-> "Git",
                                     commit_id |-> commit_id(dist.git),
                                     requested_revision |-> Some(as_str(dist.git.reference)[1])],
                       subdirectory |-> subdirectory])

----------------------------------------------------------------------------
(* InstallationReportItem::from_dist (crates/report_types)                 *)

from_dist_is_direct(resolved_dist) ==
    CASE resolved_dist.kind = "Built::DirectUrl" -> TRUE
      [] resolved_dist.kind = "Source::DirectUrl" -> TRUE
      [] OTHER -> FALSE

from_dist(resolved_dist) ==
    [is_editable |-> is_editable(resolved_dist),
     is_direct |-> from_dist_is_direct(resolved_dist)]

----------------------------------------------------------------------------
(* InstallationReportItem::from_cached_dist (crates/report-types)          *)

\* Requirement { name, extras, .. }
Requirements == [name : PackageNames, extras : {<<>>} \cup {<<e>> : e \in ExtraNames}]

\* requirements.iter().find(|requirement| requirement.name == *dist.name())
RECURSIVE rfind(_, _)
rfind(reqs, name) ==
    IF reqs = <<>> THEN None
    ELSE IF reqs[Len(reqs)].name = name THEN Some(reqs[Len(reqs)])
    ELSE rfind(SubSeq(reqs, 1, Len(reqs) - 1), name)

RECURSIVE find(_, _)
find(reqs, name) ==
    IF reqs = <<>> THEN None
    ELSE IF Head(reqs).name = name THEN Some(Head(reqs))
    ELSE find(Tail(reqs), name)

\* read_flat_wheel_metadata_full(dist.filename(), dist.path()): the metadata
\* stored with the distribution, when it can be read.
Metadata(dist) == [name |-> dist.name]

download_info_of_request(requirement) ==
    IF requirement # None
    THEN Some([variant |-> "VcsUrl", url |-> Url_to_string(RepositoryUrl),
               vcs_info |-> [vcs |-> "Git", commit_id |-> None,
                             requested_revision |-> None],
               subdirectory |-> None])
    ELSE None

download_info(requirement) ==
    IF requirement # None THEN None ELSE None

\* The item built once the metadata read came back Ok(metadata).
from_cached_dist(dist, reqs, metadata) ==
    LET requirement == find(reqs, dist.name) IN
    [is_direct |-> (version_or_url(dist) = "Url"),
     is_yanked |-> FALSE,
     download_info |-> download_info(requirement),
     requested |-> (requirement # None),
     requested_extras |-> IF requirement # None THEN requirement[1].extras ELSE <<>>,
     metadata |-> metadata]

----------------------------------------------------------------------------
(* Inputs.                                                                 *)

SeqsUpTo(S, n) == UNION {[1..k -> S] : k \in 0..n}

DistinctNames(ds) == \A i, j \in 1..Len(ds) : i # j => ds[i].name # ds[j].name

\* One origin of every variant, and the shapes the report treats specially.
ReportDists ==
    {d \in ResolvedDists(PackageNames) :
        CASE d.kind = "Source::Git" ->
                /\ d.git.precise = None
                /\ d.subdirectory = None
                /\ d.git.reference.ref \in {"Branch", "DefaultBranch"}
          [] d.kind = "Source::DirectUrl" -> d.subdirectory = None
          [] d.kind \in {"Installed::Registry", "Installed::EggInfoFile",
                         "Installed::EggInfoDirectory"} -> d.path.absolute
          [] d.kind \in {"Source::Path", "Source::Directory"} -> d.install_path.absolute
          [] OTHER -> TRUE}

RegistryDists == {d \in ResolvedDists(PackageNames) : d.kind = "Built::Registry"}

AnnotatedDists ==
    [dist : ResolvedDists({"flask"}), hashes : SeqsUpTo(HashDigests, MaxHashes)]

Annotate(dist) == [dist |-> dist, hashes |-> <<>>]

NoCall == Annotate([kind |-> "Built::Registry", name |-> "flask", index |-> IndexUrl])

----------------------------------------------------------------------------
(* The state machine.                                                      *)

\* from_resolution is called on a resolved set of any origins.
InitResolution ==
    /\ dists \in {ds \in SeqsUpTo(ReportDists, MaxDists) : DistinctNames(ds)}
    /\ requirements \in {<<>>, <<[name |-> "flask", extras |-> <<"async">>]>>}
    /\ annotated = NoCall
    /\ pc = "collect"

\* from_resolution is called with any request list.
InitRequested ==
    /\ dists \in {ds \in SeqsUpTo(RegistryDists, MaxDists) : DistinctNames(ds)}
    /\ requirements \in SeqsUpTo(Requirements, MaxReqs)
    /\ annotated = NoCall
    /\ pc = "collect"

\* direct_url or from_dist is called on one distribution.
InitDist ==
    /\ dists = <<>>
    /\ requirements = <<>>
    /\ annotated \in AnnotatedDists
    /\ pc = "call"

Init ==
    /\ (InitResolution \/ InitRequested \/ InitDist)
    /\ install = <<>>
    /\ report = None
    /\ missing = None
    /\ durl = None
    /\ locals = None

\* .collect(): the items in the order the iterator yields them
push_front(vec, item) == <<item>> \o vec

push(vec, item) == Append(vec, item)

\* One turn of the map closure: the metadata is read and the item is built.
FromCachedDist ==
    /\ pc = "collect"
    /\ Len(install) < Len(dists)
    /\ LET dist == dists[Len(install) + 1] IN
       install' = push(install, from_cached_dist(dist, requirements, Metadata(dist)))
    /\ UNCHANGED <<dists, requirements, report, missing, annotated, durl, locals, pc>>

\* One turn of the map closure: the metadata read is an Err and unwrap() panics;
\* the unwinding drops the items collected so far.
FromCachedDistPanic ==
    /\ pc = "collect"
    /\ Len(install) < Len(dists)
    /\ missing' = Some(dists[Len(install) + 1].name)
    /\ install' = <<>>
    /\ pc' = "panicked"
    /\ UNCHANGED <<dists, requirements, report, annotated, durl, locals>>

\* PipReport { install }
FromResolutionReturn ==
    /\ pc = "collect"
    /\ Len(install) = Len(dists)
    /\ report' = Some([install |-> install])
    /\ pc' = "returned"
    /\ UNCHANGED <<dists, requirements, install, missing, annotated, durl, locals>>

DirectUrl ==
    /\ pc = "call"
    /\ durl' = direct_url(annotated)
    /\ pc' = "direct_url"
    /\ UNCHANGED <<dists, requirements, install, report, missing, annotated, locals>>

FromDist ==
    /\ pc = "call"
    /\ locals' = Some(from_dist(annotated.dist))
    /\ pc' = "from_dist"
    /\ UNCHANGED <<dists, requirements, install, report, missing, annotated, durl>>

Next ==
    \/ FromCachedDist
    \/ FromCachedDistPanic
    \/ FromResolutionReturn
    \/ DirectUrl
    \/ FromDist

Spec == Init /\ [][Next]_vars

TypeOK ==
    /\ pc \in {"collect", "returned", "panicked", "call", "direct_url", "from_dist"}
    /\ annotated.dist.kind \in Kinds
    /\ \A i \in 1..Len(dists) : dists[i].kind \in Kinds
    /\ Len(install) <= Len(dists)
    /\ report # None => pc = "returned"

----------------------------------------------------------------------------
(* Claims.                                                                 *)

Entries == 1..Len(install)

\* C1: for every origin of the closed variant set the classification yields
\* is_direct = FALSE exactly for Built::Registry, Source::Registry and
\* Installed::Registry, and TRUE for every other variant, in the report item
\* (from_cached_dist) and in from_dist alike.
C1_IsDirectIffNotRegistry ==
    /\ \A i \in Entries : install[i].is_direct = (dists[i].kind \notin RegistryKinds)
    /\ pc = "from_dist" =>
          locals[1].is_direct = (annotated.dist.kind \notin RegistryKinds)

\* C2: when the metadata of a package cannot be read, the build hands an error
\* value for that package back to its caller (it returns; it does not unwind),
\* and no report exists.
C2_MissingMetadataReturnsError ==
    missing # None => (pc = "returned" /\ report = None)

\* C3: a report that was returned holds one item per input distribution, and
\* its i-th item describes the i-th distribution.
C3_ReportOrderIsInputOrder ==
    pc = "returned" =>
        /\ Len(report[1].install) = Len(dists)
        /\ \A i \in 1..Len(dists) :
              /\ report[1].install[i].metadata.name = dists[i].name
              /\ report[1].install[i].is_direct = (version_or_url(dists[i]) = "Url")

C3_Witness ==
    /\ pc = "returned"
    /\ Len(dists) = 2
    /\ dists[1].kind = "Source::Git"
    /\ dists[2].kind = "Built::Registry"
    /\ report[1].install[1].metadata.name = dists[1].name
    /\ report[1].install[2].metadata.name = dists[2].name
    /\ report[1].install[1].is_direct
    /\ ~report[1].install[2].is_direct

\* C4: an item is requested iff the request list names its package; its
\* requested_extras are the extras of the first requirement of that name, and
\* the empty sequence when no requirement names it.
Matches(name) == {j \in 1..Len(requirements) : requirements[j].name = name}

C4_RequestedFirstMatch ==
    \A i \in Entries :
        LET m == Matches(dists[i].name) IN
        /\ install[i].requested = (m # {})
        /\ m = {} => install[i].requested_extras = <<>>
        /\ m # {} =>
              \E j \in m :
                  /\ \A k \in m : j <= k
                  /\ install[i].requested_extras = requirements[j].extras

C4_Witness ==
    /\ Len(install) = 2
    /\ requirements = <<[name |-> dists[1].name, extras |-> <<"async">>],
                        [name |-> dists[1].name, extras |-> <<>>]>>
    /\ install[1].requested
    /\ install[1].requested_extras = <<"async">>
    /\ ~install[2].requested
    /\ install[2].requested_extras = <<>>

\* C5: the hashes of an ArchiveUrl map exactly the algorithms that occur in the
\* hash sequence, each to the digest of its last occurrence; the empty sequence
\* gives the empty mapping.
C5_HashesLastWriteWins ==
    (pc = "direct_url" /\ durl # None /\ durl[1].variant = "ArchiveUrl") =>
        LET hs == annotated.hashes
            map == durl[1].archive_info.hashes[1]
        IN
        /\ DOMAIN map = {HashAlgorithm_to_string(hs[i].algorithm) : i \in 1..Len(hs)}
        /\ \A i \in 1..Len(hs) :
              (\A j \in (i + 1)..Len(hs) : hs[j].algorithm # hs[i].algorithm)
                  => map[HashAlgorithm_to_string(hs[i].algorithm)] = hs[i].digest

C5_Witness ==
    /\ pc = "direct_url"
    /\ annotated.hashes = <<[algorithm |-> "Sha256", digest |-> "A"],
                            [algorithm |-> "Sha256", digest |-> "B"]>>
    /\ durl # None
    /\ durl[1].variant = "ArchiveUrl"
    /\ DOMAIN durl[1].archive_info.hashes[1] = {"sha256"}
    /\ durl[1].archive_info.hashes[1]["sha256"] = "B"

\* C6: the record synthesized for an origin whose location is a URL is of the
\* variant of the policy table: LocalDirectory for a local directory and for the
\* installed egg-info and legacy-editable shapes, ArchiveUrl (with the
\* aggregated hashes and the origin's subdirectory) for a local path file and
\* for a direct-URL archive, VcsUrl for a Git source whose reference has a
\* text, and no record for a registry distribution.
C6_VariantFollowsPolicyTable ==
    (pc = "direct_url" /\ url(annotated) # Err) =>
        LET kind == annotated.dist.kind IN
        /\ kind \in {"Source::Directory", "Installed::EggInfoFile",
                     "Installed::EggInfoDirectory", "Installed::LegacyEditable"}
              => (durl # None /\ durl[1].variant = "LocalDirectory")
        /\ kind \in {"Built::Path", "Source::Path", "Built::DirectUrl", "Source::DirectUrl"}
              => /\ durl # None
                 /\ durl[1].variant = "ArchiveUrl"
                 /\ durl[1].archive_info.hashes = Some(aggregate(BTreeMap_new, annotated.hashes))
                 /\ durl[1].subdirectory = subdirectory_of(annotated.dist)
        /\ (kind = "Source::Git" /\ as_str(annotated.dist.git.reference) # None)
              => (durl # None /\ durl[1].variant = "VcsUrl")
        /\ kind \in {"Built::Registry", "Source::Registry"} => durl = None

\* C7: for a Git source whose reference has a text, the record is a VcsUrl of
\* the repository URL, with the hex text of the precise commit when there is
\* one and no commit_id otherwise, the reference text as the requested
\* revision, and the origin's subdirectory.
HexOf(sha) ==
    CASE sha = <<171, 205>> -> "abcd"
      [] sha = <<0, 31>> -> "001f"

C7_VcsUrlFields ==
    (/\ pc = "direct_url"
     /\ annotated.dist.kind = "Source::Git"
     /\ annotated.dist.git.reference.ref # "DefaultBranch") =>
        LET git == annotated.dist.git IN
        durl = Some([variant |-> "VcsUrl",
                     url |-> "https://git.example/pkg",
                     vcs_info |-> [vcs |-> "Git",
                                   commit_id |-> IF git.precise = None THEN None
                                                 ELSE Some(HexOf(git.precise[1])),
                                   requested_revision |-> Some(git.reference.rev)],
                     subdirectory |-> annotated.dist.subdirectory])

C7_Witness ==
    /\ pc = "direct_url"
    /\ annotated.dist.kind = "Source::Git"
    /\ annotated.dist.git.reference = [ref |-> "Branch", rev |-> "main"]
    /\ annotated.dist.git.precise = Some(<<171, 205>>)
    /\ durl # None
    /\ durl[1].vcs_info.commit_id = Some("abcd")
    /\ durl[1].vcs_info.requested_revision = Some("main")

\* C8: a Git source whose reference has no text yields no record, the item of
\* that package is emitted with download_info absent, and a report that is
\* returned still holds one item per distribution.
Unrepresentable(dist) ==
    dist.kind = "Source::Git" /\ dist.git.reference.ref = "DefaultBranch"

C8_UnrepresentableRevisionDegrades ==
    /\ \A i \in Entries :
          Unrepresentable(dists[i]) =>
              /\ direct_url(Annotate(dists[i])) = None
              /\ install[i].download_info = None
    /\ pc = "returned" =>
          /\ Len(report[1].install) = Len(dists)
          /\ \A i \in 1..Len(dists) :
                Unrepresentable(dists[i]) => report[1].install[i].download_info = None

C8_Witness ==
    /\ pc = "returned"
    /\ Len(dists) = 2
    /\ Unrepresentable(dists[1])
    /\ dists[1].name = "flask"
    /\ requirements # <<>>
    /\ Len(report[1].install) = 2
    /\ report[1].install[1].download_info = None
    /\ report[1].install[1].requested

\* C9: no item is emitted, and no report returned, for a distribution whose
\* local path has no file:// URL.
C9_PathConversionIsFatal ==
    /\ \A i \in Entries : url(Annotate(dists[i])) # Err
    /\ pc = "returned" => \A i \in 1..Len(dists) : url(Annotate(dists[i])) # Err

\* C10: a Source::Directory synthesizes LocalDirectory with its editable flag,
\* and the item built for that package carries this record.
C10_EditableReachesReport ==
    \A i \in Entries :
        (dists[i].kind = "Source::Directory" /\ dists[i].install_path.absolute) =>
            /\ direct_url(Annotate(dists[i])) =
                  Some([variant |-> "LocalDirectory",
                        url |-> "file:///srv/pkg",
                        dir_info |-> [editable |-> Some(dists[i].editable)]])
            /\ install[i].download_info = direct_url(Annotate(dists[i]))

====
